---- MODULE Spec2Model ----
(***************************************************************************)
(* Orchestration core of the Business Partner multi-agent backend.         *)
(*                                                                         *)
(* One session (one LangGraph thread_id) is modelled.  A state dict of     *)
(* the program is a function from key names to values; a key that is not   *)
(* in the DOMAIN is a key the dict does not have.  The graph is compiled   *)
(* from StateGraph(BusinessPartnerState) with a checkpointer: only the     *)
(* keys declared in BusinessPartnerState are channels, the input of        *)
(* graph.invoke is written over the checkpointed channels, a node receives *)
(* a fresh dict of the channel values and only the declared keys of the    *)
(* dict it returns are written back (messages through add_messages).       *)
(***************************************************************************)
EXTENDS Integers, Sequences, FiniteSets, TLC

VARIABLES
    chan,       \* checkpointed channel values of the session's thread
    pc,         \* "idle" or the graph node that runs next in the turn
    steps,      \* nodes run so far in the current turn
    turns,      \* chat requests received so far
    outcome,    \* how the last finished turn ended
    nodes,      \* nodes invoked in the current (or last) turn, in order
    pre,        \* state dict the last node invocation received
    post,       \* that dict after the invocation's in-place mutations
    result,     \* partial update the last node invocation returned
    initial_state, \* the dict the chat handler built for the current turn
    uwCalls,    \* underwriting invocations in the session so far
    everSet,    \* business fields non-null in the state persisted after some finished turn
    lastPhase,  \* phase most recently produced by the turn merge or a primary invocation
    lastTasks,  \* completed_tasks most recently returned by a primary invocation
    seenPhases, \* phase values produced in the session so far
    persisted_next_agent, \* next_agent the session held when the current turn began
    turn_start, \* channel values of the thread when the current turn began
    request,    \* what the current turn's request carried and how its load went
    effects,    \* background effects started in the session so far, in order
    waiting,    \* requests suspended in the handler before the snapshot is loaded
    ready,      \* the turn's first primary invocation found the offer prerequisites
    inserted,   \* ids of the rows inserted into the messages table, in order
    agent,      \* the primary agent's prompt cache, the clock and the last prompt returned
    extraction  \* the outcome of the extraction call in the last direct call of process

vars == <<chan, pc, steps, turns, outcome, nodes, pre, post, result,
          initial_state, uwCalls, everSet, lastPhase, lastTasks, seenPhases,
          persisted_next_agent, turn_start, request, effects, waiting, ready, inserted, agent,
                   extraction>>

(***************************************************************************)
(* Bounds of the model.                                                    *)
(***************************************************************************)
MaxTurns == 2
\* LangGraph's recursion_limit (25 by default), scaled down
RecursionLimit == 5

(***************************************************************************)
(* Values.                                                                 *)
(***************************************************************************)
NULL == "null"

BusinessFields ==
    {"business_type", "location", "years_operating", "num_employees",
     "monthly_revenue", "monthly_expenses", "loan_purpose"}

ProfileFields == {"business_type", "location", "years_operating", "num_employees"}
FinancialFields == {"monthly_revenue", "monthly_expenses", "loan_purpose"}

RequiredTasks ==
    <<"confirm_eligibility", "capture_business_profile",
      "capture_business_financials", "capture_business_photos",
      "photo_analysis_complete">>

\* keys declared by the graph's state schema (the channels)
SchemaKeys ==
    BusinessFields \cup
    {"messages", "photos", "photo_insights", "loan_offer", "loan_offered",
     "loan_accepted", "info_complete", "photos_received", "next_agent",
     "servicing_type", "disbursement_status", "repayment_status",
     "payment_schedule", "repayment_impact_explanation", "recovery_status",
     "session_id", "user_id", "conversation_id", "system_prompt"}

\* contents of a user message, by what the agents' keyword checks see:
\*   plain   - text with none of the keywords
\*   accept  - text with an acceptance keyword ("yes", "ok", ...)
\*   payment - text with the servicing keyword "payment"
\*   trouble - text with "trouble paying"
\*   photo   - a content list with one base64 image part
UserKinds == {"plain", "accept", "payment", "trouble", "photo"}
\* a generated assistant reply is a string of unknown content ("text"); what
\* the keyword checks find in it is drawn when an invocation reads it
ReplyKinds == {"plain", "accept", "payment"}

\* outputs of the extraction call: the non-null keys of the JSON object
\* (the empty set also stands for a failed or unparseable extraction)
ExtractOutputs ==
    { {},
      {"business_type", "location"},
      BusinessFields }

Range(s) == {s[i] : i \in 1..Len(s)}

(***************************************************************************)
(* dict helpers                                                            *)
(***************************************************************************)
Has(s, k) == k \in DOMAIN s
\* state.get(k) for a string-valued key
Get(s, k) == IF k \in DOMAIN s THEN s[k] ELSE NULL
\* state.get(k, d)
GetD(s, k, d) == IF k \in DOMAIN s THEN s[k] ELSE d
\* state.get(k, False) / truthiness of a boolean key
GetB(s, k) == IF k \in DOMAIN s THEN s[k] ELSE FALSE
\* state.get(k, []) for a list-valued key
GetL(s, k) == IF k \in DOMAIN s THEN s[k] ELSE <<>>
\* dict.update
Update(s, u) == u @@ s
Set(s, k, v) == (k :> v) @@ s
EmptyDict == [k \in {} |-> NULL]

Msg(role, kind) == [id |-> 0, role |-> role, kind |-> kind]
IsStr(m) == m.kind # "photo"


(***************************************************************************)
(* OnboardingAgent (the primary specialist, graph node business_partner)   *)
(***************************************************************************)
LastMessage(s) == GetL(s, "messages")[Len(GetL(s, "messages"))]

\* the value the generated JSON object holds under key k
ExtractedValue(k) ==
    IF k \in BusinessFields THEN "u"
    ELSE IF k \in {"loan_accepted", "loan_offered"} THEN TRUE
    ELSE IF k = "next_agent" THEN "servicing"
    ELSE IF k = "phase" THEN "delinquent"
    ELSE "x"

\* the dict of the non-null keys X of the generated JSON object
ExtractedDict(X) == [k \in X |-> ExtractedValue(k)]

\* no extraction call made yet
NoExtraction == [how |-> "none", keys |-> {}]

\* outputs of the generation call that hold keys the prompt did not ask for
ForeignOutputs ==
    { {"business_type", "loan_accepted", "loan_offered"},
      {"location", "next_agent", "phase"} }

\* the extraction's generation call: it raises, returns text that is not
\* JSON, or returns a JSON object with the non-null keys given
ExtractionCalls ==
    {[how |-> "raises", keys |-> {}], [how |-> "unparseable", keys |-> {}]} \cup
    {[how |-> "json", keys |-> K] : K \in ExtractOutputs \cup ForeignOutputs}

\* a failed call handing on every business field
ExtractUpdatesUnguarded(call) ==
    IF call.how = "json" THEN call.keys ELSE BusinessFields

\* lines 441-476: the updates of a call, {} from the except branch
ExtractUpdates(call) ==
    IF call.how = "json" THEN call.keys ELSE {}

\* extract_business_info: nothing without a user message, otherwise the
\* non-null keys X of the generated JSON object
ExtractBusinessInfo(s, X) ==
    IF \E i \in 1..Len(GetL(s, "messages")) : GetL(s, "messages")[i].role = "human"
    THEN X ELSE {}

MarkTaskComplete(s, task_id) ==
    IF task_id \in Range(GetL(s, "completed_tasks")) THEN s
    ELSE Set(s, "completed_tasks", Append(GetL(s, "completed_tasks"), task_id))

CheckAllTasksComplete(s) ==
    \A i \in 1..Len(GetL(s, "required_tasks")) :
        GetL(s, "required_tasks")[i] \in Range(GetL(s, "completed_tasks"))

CheckIfInfoComplete(s) ==
    \A f \in {"business_type", "location", "monthly_revenue", "loan_purpose"} :
        Get(s, f) # NULL

\* acceptance keywords are looked for in the last message, when it is a string
CheckIfLoanAccepted(messages) ==
    /\ Len(messages) > 0
    /\ messages[Len(messages)].kind = "accept"

ShouldCallUnderwritingAgent(s) ==
    /\ CheckAllTasksComplete(s)
    /\ Len(GetL(s, "photo_insights")) > 0
    /\ ~GetB(s, "loan_offered")

ShouldCallServicingAgent(s) ==
    \/ GetB(s, "loan_accepted") /\ Get(s, "disbursement_status") = NULL
    \/ /\ Len(GetL(s, "messages")) > 0
       /\ LastMessage(s).kind \in {"payment", "trouble"}
    \/ Get(s, "recovery_status") \notin {NULL, "resolved", "escalated"}

DetectServicingType(s) ==
    LET kind == IF Len(GetL(s, "messages")) > 0 THEN LastMessage(s).kind ELSE "plain"
    IN  IF GetB(s, "loan_accepted") /\ Get(s, "disbursement_status") = NULL
        THEN "disbursement"
        ELSE IF kind = "trouble" THEN "recovery"
        ELSE IF kind = "payment" THEN "repayment"
        ELSE "general"

DetectPhotosInMessage(messages) ==
    IF Len(messages) > 0 /\ messages[Len(messages)].kind = "photo"
    THEN <<"img">> ELSE <<>>

\* lines 829-833: the capture tasks, by the keys the extraction returned
MarkProfile(s, X) ==
    IF X \cap ProfileFields # {}
    THEN MarkTaskComplete(s, "capture_business_profile") ELSE s

MarkFinancials(s, X) ==
    IF X \cap FinancialFields # {}
    THEN MarkTaskComplete(s, "capture_business_financials") ELSE s

\* lines 818-833: merge the extraction output and mark the capture tasks
ApplyExtraction(s, X) ==
    IF X = {} THEN s
    ELSE MarkFinancials(MarkProfile(ExtractedDict(X) @@ s, X), X)

\* lines 835-840: collect the photos of the latest message
CollectPhotos(s) ==
    IF DetectPhotosInMessage(GetL(s, "messages")) # <<>>
    THEN Set(s, "photos", GetL(s, "photos") \o DetectPhotosInMessage(GetL(s, "messages")))
    ELSE s

\* insights indexed by their position among the photos of this invocation
NewInsightsFromZero(s) ==
    GetL(s, "photo_insights") \o
        [i \in 1..(Len(GetL(s, "photos")) - Len(GetL(s, "photo_insights"))) |-> i - 1]

\* lines 855-862: one insight per photo not yet analysed; an insight is its photo_index
NewInsights(s) ==
    GetL(s, "photo_insights") \o
        [i \in 1..(Len(GetL(s, "photos")) - Len(GetL(s, "photo_insights"))) |->
            Len(GetL(s, "photo_insights")) + i - 1]

\* lines 864-868
MarkPhotoTasks(s) ==
    IF Len(GetL(s, "photo_insights")) > 0
    THEN MarkTaskComplete(MarkTaskComplete(s, "capture_business_photos"),
                          "photo_analysis_complete")
    ELSE MarkTaskComplete(s, "capture_business_photos")

\* lines 842-868
AnalyzePhotos(s) ==
    IF Len(GetL(s, "photos")) > Len(GetL(s, "photo_insights"))
    THEN MarkPhotoTasks(Set(s, "photo_insights", NewInsights(s)))
    ELSE s

\* lines 835-868
ApplyPhotos(s) == AnalyzePhotos(CollectPhotos(s))

\* the eligibility task marked only when every business field is set
ConfirmEligibilityAllFields(s) ==
    IF \A f \in BusinessFields : Get(s, f) # NULL
    THEN MarkTaskComplete(s, "confirm_eligibility") ELSE s

\* lines 873-875
ConfirmEligibility(s) ==
    IF Get(s, "business_type") # NULL /\ Get(s, "location") # NULL
    THEN MarkTaskComplete(s, "confirm_eligibility") ELSE s

\* lines 877-880
CheckAcceptance(s) ==
    IF GetB(s, "loan_offered") /\ ~GetB(s, "loan_accepted")
       /\ CheckIfLoanAccepted(GetL(s, "messages"))
    THEN Set(s, "loan_accepted", TRUE) ELSE s

\* lines 873-880
ApplyEligibilityAndAcceptance(s) == CheckAcceptance(ConfirmEligibility(s))

\* lines 884-885
PhaseOffer(s) ==
    IF Get(s, "loan_offer") # NULL /\ Get(s, "phase") = "onboarding"
    THEN Set(s, "phase", "offer") ELSE s

\* lines 888-890
PhasePostDisbursement(s) ==
    IF GetB(s, "loan_accepted") /\ Get(s, "disbursement_status") = "completed"
       /\ Get(s, "phase") \in {"onboarding", "offer"}
    THEN Set(s, "phase", "post_disbursement") ELSE s

\* lines 893-895
PhaseDelinquent(s) ==
    IF Get(s, "recovery_status") \notin {"resolved", "escalated", NULL}
       /\ Get(s, "phase") = "post_disbursement"
    THEN Set(s, "phase", "delinquent") ELSE s

\* lines 882-895
UpdatePhase(s) == PhaseDelinquent(PhasePostDisbursement(PhaseOffer(s)))

\* the routing with the coaching and servicing branches exchanged
NextAgentServicingFirst(s) ==
    IF ShouldCallUnderwritingAgent(s) THEN "underwriting"
    ELSE IF ShouldCallServicingAgent(s) THEN "servicing"
    ELSE IF GetB(s, "loan_accepted") /\ Get(s, "coaching_provided") = NULL THEN "coaching"
    ELSE NULL

\* lines 897-907
NextAgent(s) ==
    IF ShouldCallUnderwritingAgent(s) THEN "underwriting"
    ELSE IF GetB(s, "loan_accepted") /\ Get(s, "coaching_provided") = NULL THEN "coaching"
    ELSE IF ShouldCallServicingAgent(s) THEN "servicing"
    ELSE NULL

\* lines 818-895: the received dict after the in-place mutations of process;
\* X is the extraction output
OnboardingState(s, X) ==
    UpdatePhase(ApplyEligibilityAndAcceptance(ApplyPhotos(
        ApplyExtraction(s, ExtractBusinessInfo(s, X)))))

\* lines 927-929
ServicingTypePart(st) ==
    IF NextAgent(st) = "servicing"
    THEN [servicing_type |-> DetectServicingType(st)] ELSE EmptyDict

\* a prompt text, by what lines 795-816 look for in it:
\*   base      - the prompt fetched by get_system_prompt
\*   lang      - a client text that holds "LANGUAGE REQUIREMENT"
\*   lang+base - that language instruction followed by the base prompt
\*   other     - a client text without the keyword
HasLanguageRequirement(p) == p \in {"lang", "lang+base"}

\* lines 792-816: the instructions the primary invocation uses
SystemPromptUsed(s) ==
    IF HasLanguageRequirement(Get(s, "system_prompt")) THEN "lang+base" ELSE "base"

\* lines 913-931: the partial update process returns
OnboardingResult(st, extracted) ==
    Update(Update([messages |-> <<Msg("ai", "text")>>,
                   system_prompt |-> SystemPromptUsed(st),
                   info_complete |-> CheckIfInfoComplete(st),
                   photos_received |-> Len(GetL(st, "photos")) > 0,
                   next_agent |-> NextAgent(st),
                   phase |-> GetD(st, "phase", "onboarding"),
                   completed_tasks |-> GetL(st, "completed_tasks")],
                  ExtractedDict(extracted)),
           ServicingTypePart(st))

\* OnboardingAgent.process: post is the received dict after the in-place
\* mutations, result the returned partial update
OnboardingProcess(s, X) ==
    [post |-> OnboardingState(s, X),
     result |-> OnboardingResult(OnboardingState(s, X), ExtractBusinessInfo(s, X))]


(***************************************************************************)
(* UnderwritingAgent, CoachingAgent, ServicingAgent                        *)
(***************************************************************************)
\* a key that is present with value None (state.get(k, d) then yields None)
IsNone(s, k) == Has(s, k) /\ s[k] = NULL

\* calculate_risk_score calls .lower() on loan_purpose and
\* _generate_risk_factors compares years_operating and monthly_revenue with
\* numbers: each raises on None
UnderwritingRaises(s) ==
    \/ IsNone(s, "loan_purpose")
    \/ IsNone(s, "years_operating")
    \/ IsNone(s, "monthly_revenue")

UnderwritingProcess(s) ==
    [risk_tier |-> "medium",
     loan_offer |-> "offer",
     loan_offered |-> TRUE,
     _loan_saved |-> TRUE,
     next_agent |-> NULL]

\* underwriting_agent.py 304-323: the loan-application save is started
SaveLoanStarted(s) ==
    Get(s, "conversation_id") # NULL /\ ~GetB(s, "_loan_saved")

\* threading.Thread(target=run_async).start(): an exception of the target is
\* raised in the new thread, the caller goes on
RaisedInCallerSync(effect_fails) == effect_fails
RaisedInCaller(effect_fails) == FALSE

\* generate_coaching_advice formats monthly_revenue with ",.0f"
CoachingRaises(s) == IsNone(s, "monthly_revenue")

CoachingProcess(s) ==
    [next_agent |-> NULL, coaching_advice |-> "advice"]

ProcessDisbursement(s) ==
    IF Get(s, "loan_offer") = NULL
    THEN [disbursement_status |-> "error"]
    ELSE [disbursement_status |-> "initiated"]

ProcessRepayment(s) ==
    IF Get(s, "loan_offer") = NULL
    THEN [repayment_status |-> "error"]
    ELSE [repayment_status |-> "processing"]

GeneratePaymentSchedule(s) ==
    IF Get(s, "loan_offer") = NULL
    THEN [payment_schedule |-> NULL]
    ELSE [payment_schedule |-> "schedule"]

\* handle_recovery_conversation: agreed tells whether the generated text
\* holds one of the resolution keywords
HandleRecoveryConversation(s, agreed) ==
    [recovery_status |-> IF agreed THEN "resolution_pending"
                         ELSE GetD(s, "recovery_status", "initial")]

\* the content of the latest human string message, found by the reverse scan
LastUserKind(messages) ==
    LET idx == {i \in 1..Len(messages) : messages[i].role = "human" /\ IsStr(messages[i])}
    IN  IF idx = {} THEN NULL
        ELSE messages[CHOOSE i \in idx : \A j \in idx : j <= i].kind

\* the branch ServicingAgent.process takes
ServicingBranch(s) ==
    LET st == GetD(s, "servicing_type", "general")
        last == LastUserKind(GetL(s, "messages"))
    IN  IF st \in {"disbursement", "repayment", "payment_schedule", "repayment_impact", "recovery"}
        THEN st
        ELSE IF GetB(s, "loan_accepted") /\ Get(s, "disbursement_status") = NULL
             THEN "disbursement"
        ELSE IF last = "payment" THEN "repayment"
        ELSE IF last = "trouble" THEN "recovery"
        ELSE "none"

\* handle_recovery_conversation dereferences loan_offer
ServicingRaises(s) ==
    ServicingBranch(s) = "recovery" /\ Get(s, "loan_offer") = NULL

ServicingResult(b, s, agreed) ==
    IF b = "disbursement"
        THEN Update(ProcessDisbursement(s), GeneratePaymentSchedule(s))
    ELSE IF b = "repayment" THEN ProcessRepayment(s)
    ELSE IF b = "payment_schedule" THEN GeneratePaymentSchedule(s)
    ELSE IF b = "repayment_impact" THEN [repayment_impact_explanation |-> "text"]
    ELSE IF b = "recovery" THEN HandleRecoveryConversation(s, agreed)
    ELSE EmptyDict

ServicingProcess(s, agreed) ==
    Set(ServicingResult(ServicingBranch(s), s, agreed), "next_agent", NULL)

\* servicing_agent.py 488-502: the loan-status update is started
UpdateLoanStarted(s, agreed) ==
    /\ Get(s, "conversation_id") # NULL
    /\ Get(ServicingProcess(s, agreed), "disbursement_status") = "initiated"

(***************************************************************************)
(* The compiled graph                                                      *)
(***************************************************************************)
\* a routing that hands any non-null signal to the graph as a node name
RouteByName(next_agent) == IF next_agent = NULL THEN "end" ELSE next_agent

RouteAfterBusinessPartner(next_agent) ==
    IF next_agent = "underwriting" THEN "underwriting"
    ELSE IF next_agent = "servicing" THEN "servicing"
    ELSE IF next_agent = "coaching" THEN "coaching"
    ELSE "end"

\* the add_messages reducer: a message whose id is already in the history
\* replaces that entry, any other message is appended under a fresh id
\* a channel without reducer: the written value replaces the held one
AddMessagesLastValue(left, right) == right
RECURSIVE AddMessages(_, _)
AddMessages(left, right) ==
    IF right = <<>> THEN left
    ELSE LET m == Head(right)
             hit == {i \in 1..Len(left) : m.id # 0 /\ left[i].id = m.id}
             merged == IF hit # {}
                       THEN [i \in 1..Len(left) |-> IF i \in hit THEN m ELSE left[i]]
                       ELSE Append(left, [m EXCEPT !.id = Len(left) + 1])
         IN  AddMessages(merged, Tail(right))

\* writes of a dict into the channels: declared keys only
ChannelWrite(c, u) ==
    [k \in (DOMAIN c) \cup ((DOMAIN u) \cap SchemaKeys) |->
        IF k \in DOMAIN u
        THEN IF k = "messages" THEN AddMessages(GetL(c, "messages"), u[k]) ELSE u[k]
        ELSE c[k]]

\* the lists a node extends in place are the list objects the channels hold
InPlaceLists(c, st) ==
    [k \in DOMAIN c |->
        IF k \in {"photos", "photo_insights"} /\ k \in DOMAIN st THEN st[k] ELSE c[k]]


(***************************************************************************)
(* Chat entry points                                                       *)
(***************************************************************************)
\* api/index.py chat, lines 92-115: the dict handed to graph.invoke
ApiInitialState(kind) ==
    [k \in BusinessFields |-> NULL] @@
    [messages |-> <<Msg("human", kind)>>,
     session_id |-> "s",
     user_id |-> "demo-user",
     photos |-> <<>>,
     photo_insights |-> <<>>,
     loan_offer |-> NULL,
     info_complete |-> FALSE,
     photos_received |-> FALSE,
     loan_offered |-> FALSE,
     loan_accepted |-> FALSE,
     next_agent |-> NULL,
     system_prompt |-> NULL]

\* prompt_cache_time = None, among times that are integers
NoTime == -1

\* onboarding_agent.py 39-41: the agent object as constructed, with the
\* clock at 0 and no prompt returned yet
NewAgent ==
    [system_prompt |-> NULL, prompt_cache_time |-> NoTime, now |-> 0,
     returned |-> NULL, fetch |-> NULL, cached |-> FALSE]

\* a request with no instruction override, whose snapshot load succeeded
NoRequest == [system |-> NULL, load |-> "ok", others |-> 0, overlapped |-> FALSE]

NonNullFields(c) == {f \in BusinessFields : Get(c, f) # NULL}

Init ==
    /\ chan = EmptyDict
    /\ pc = "idle"
    /\ steps = 0
    /\ turns = 0
    /\ outcome = "none"
    /\ nodes = <<>>
    /\ pre = EmptyDict
    /\ post = EmptyDict
    /\ result = EmptyDict
    /\ initial_state = EmptyDict
    /\ uwCalls = 0
    /\ everSet = {}
    /\ lastPhase = NULL
    /\ lastTasks = {}
    /\ seenPhases = {}
    /\ persisted_next_agent = NULL
    /\ turn_start = EmptyDict
    /\ request = NoRequest
    /\ effects = <<>>
    /\ waiting = 0
    /\ ready = FALSE
    /\ inserted = <<>>
    /\ agent = NewAgent
    /\ extraction = NoExtraction

\* graph.py 182 and 197-199: the entry point and the edge out of a specialist
EntryPoint == "business_partner"
\* an edge from the servicing node to the coaching node
AfterSpecialistToCoaching(n) == IF n = "servicing" THEN "coaching" ELSE "business_partner"
AfterSpecialist(n) == "business_partner"

\* graph.invoke(initial_state, config): the input is written over the
\* thread's channels and the entry node is scheduled
StartTurn(init, req) ==
    /\ initial_state' = init
    /\ turn_start' = chan
    /\ request' = req
    /\ chan' = ChannelWrite(chan, init)
    /\ pc' = EntryPoint
    /\ steps' = 0
    /\ turns' = turns + 1
    /\ nodes' = <<>>
    /\ outcome' = "running"
    /\ lastPhase' = IF Has(init, "phase") THEN init["phase"] ELSE lastPhase
    /\ seenPhases' = IF Has(init, "phase") THEN seenPhases \cup {init["phase"]} ELSE seenPhases
    /\ persisted_next_agent' = Get(chan, "next_agent")
    /\ ready' = FALSE
    /\ UNCHANGED <<pre, post, result, uwCalls, everSet, lastTasks, effects, inserted, agent,
                   extraction>>

\* api/index.py chat up to graph.invoke: the input is written over the
\* thread's channels and the entry node is scheduled
ApiChat(kind) ==
    /\ pc = "idle"
    /\ turns < MaxTurns
    /\ StartTurn(ApiInitialState(kind), NoRequest)
    /\ UNCHANGED waiting

\* main.py chat: line 120 reads the local existing_state, which is assigned
\* only at line 166; the read raises UnboundLocalError outside the try block
MainChat ==
    /\ pc = "idle"
    /\ turns < MaxTurns
    /\ turns' = turns + 1
    /\ outcome' = "UnboundLocalError"
    /\ ready' = FALSE
    /\ UNCHANGED <<chan, pc, steps, nodes, pre, post, result, initial_state,
                   uwCalls, everSet, lastPhase, lastTasks, seenPhases,
                   persisted_next_agent, turn_start, request, effects, waiting,
                   inserted, agent,
                   extraction>>

\* the turn goes on with node n, unless the recursion limit is reached
Continue(n) ==
    IF steps + 1 >= RecursionLimit
    THEN pc' = "idle" /\ outcome' = "GraphRecursionError"
    ELSE pc' = n /\ outcome' = outcome

\* the dict a node receives; seen is what the keyword checks find in the
\* latest message when that message is a generated reply
NodeInput(c, seen) ==
    LET msgs == GetL(c, "messages")
        n == Len(msgs)
    IN  IF n > 0 /\ msgs[n].role = "ai"
        THEN Set(c, "messages", [msgs EXCEPT ![n].kind = seen])
        ELSE c

SeenKinds(c) ==
    IF Len(GetL(c, "messages")) > 0 /\ LastMessage(c).role = "ai"
    THEN ReplyKinds ELSE {"plain"}

\* db.py 119-172: a row is inserted for every message after the first
\* last_saved_count ones; a row is written as the id of its message
SaveMessages(table, messages, last_saved_count) ==
    table \o [i \in 1..(Len(messages) - last_saved_count) |->
                 messages[last_saved_count + i].id]

\* main.py 281-282: after graph.invoke returned, main.py's handler saves the
\* messages of the result; api/index.py has no such call
AfterTurnSave(table, init, c) ==
    IF Has(init, "conversation_id")
    THEN SaveMessages(table, GetL(c, "messages"), 0)
    ELSE table

\* the state holds what the offer needs: every required task completed, an
\* analysed photo, no offer yet
OfferPrerequisites(s) ==
    /\ Range(RequiredTasks) \subseteq Range(GetL(s, "completed_tasks"))
    /\ Len(GetL(s, "photo_insights")) > 0
    /\ Get(s, "loan_offer") = NULL
    /\ ~GetB(s, "loan_offered")

\* the channels after a primary invocation that returned out
AfterPrimaryWrite(c, out) == InPlaceLists(ChannelWrite(c, out.result), out.post)

BusinessPartnerNode(X, seen) ==
    /\ pc = "business_partner"
    /\ seen \in SeenKinds(chan)
    /\ \E out \in {OnboardingProcess(NodeInput(chan, seen), X)} :
         \E c1 \in {AfterPrimaryWrite(chan, out)} :
           /\ chan' = c1
           /\ pre' = NodeInput(chan, seen)
           /\ post' = out.post
           /\ result' = out.result
           /\ IF RouteAfterBusinessPartner(Get(c1, "next_agent")) = "end"
              THEN /\ pc' = "idle"
                   /\ outcome' = "ok"
                   /\ everSet' = everSet \cup NonNullFields(c1)
                   /\ inserted' = AfterTurnSave(inserted, initial_state, c1)
              ELSE /\ Continue(RouteAfterBusinessPartner(Get(c1, "next_agent")))
                   /\ everSet' = everSet
                   /\ inserted' = inserted
           /\ ready' = IF nodes = <<>> THEN OfferPrerequisites(out.post) ELSE ready
           /\ lastPhase' = out.result["phase"]
           /\ seenPhases' = seenPhases \cup {out.result["phase"]}
           /\ lastTasks' = Range(out.result["completed_tasks"])
    /\ steps' = steps + 1
    /\ nodes' = Append(nodes, "business_partner")
    /\ UNCHANGED <<turns, uwCalls, initial_state, persisted_next_agent,
                   turn_start, request, effects, waiting, agent,
                   extraction>>

\* a background effect that was started, and whether it failed
Effect(name, effect_fails) == [name |-> name, failed |-> effect_fails]

\* db.py 186-189: the offer save_loan_application finds in the dict it was
\* handed, which is the dict the node received; process does not store the
\* offer in it and the graph never writes to it
SaveLoanReads(state) == Get(state, "loan_offer")

\* the save started by an underwriting invocation on state: without an offer
\* in the dict it returns before anything can raise
SaveLoanEffect(state, effect_fails) ==
    [name |-> "save_loan_application", failed |-> effect_fails,
     loan_offer |-> SaveLoanReads(state)]

\* effect_fails: the save_loan_application call of the background thread raises
UnderwritingNode(effect_fails) ==
    /\ pc = "underwriting"
    /\ pre' = chan
    /\ post' = chan
    /\ uwCalls' = uwCalls + 1
    /\ steps' = steps + 1
    /\ nodes' = Append(nodes, "underwriting")
    /\ IF UnderwritingRaises(chan)
       THEN /\ ~effect_fails
            /\ pc' = "idle"
            /\ outcome' = "UnderwritingError"
            /\ UNCHANGED <<chan, result, effects>>
       ELSE IF SaveLoanStarted(chan)
       THEN /\ effect_fails => SaveLoanReads(chan) # NULL
            /\ effects' = Append(effects, SaveLoanEffect(chan, effect_fails))
            /\ IF RaisedInCaller(effect_fails)
               THEN /\ pc' = "idle"
                    /\ outcome' = "UnderwritingError"
                    /\ UNCHANGED <<chan, result>>
               ELSE /\ result' = UnderwritingProcess(chan)
                    /\ chan' = ChannelWrite(chan, UnderwritingProcess(chan))
                    /\ Continue(AfterSpecialist("underwriting"))
       ELSE /\ ~effect_fails
            /\ result' = UnderwritingProcess(chan)
            /\ chan' = ChannelWrite(chan, UnderwritingProcess(chan))
            /\ Continue(AfterSpecialist("underwriting"))
            /\ UNCHANGED effects
    /\ UNCHANGED <<turns, everSet, initial_state, lastPhase, lastTasks, seenPhases,
                   persisted_next_agent, turn_start, request, waiting, ready, inserted, agent,
                   extraction>>

\* effect_fails: the update_loan_status call of the background thread raises
ServicingNode(agreed, effect_fails) ==
    /\ pc = "servicing"
    /\ pre' = chan
    /\ post' = chan
    /\ steps' = steps + 1
    /\ nodes' = Append(nodes, "servicing")
    /\ IF ServicingRaises(chan)
       THEN /\ ~effect_fails
            /\ pc' = "idle"
            /\ outcome' = "ServicingError"
            /\ UNCHANGED <<chan, result, effects>>
       ELSE IF UpdateLoanStarted(chan, agreed)
       THEN /\ effects' = Append(effects, Effect("update_loan_status", effect_fails))
            /\ IF RaisedInCaller(effect_fails)
               THEN /\ pc' = "idle"
                    /\ outcome' = "ServicingError"
                    /\ UNCHANGED <<chan, result>>
               ELSE /\ result' = ServicingProcess(chan, agreed)
                    /\ chan' = ChannelWrite(chan, ServicingProcess(chan, agreed))
                    /\ Continue(AfterSpecialist("servicing"))
       ELSE /\ ~effect_fails
            /\ result' = ServicingProcess(chan, agreed)
            /\ chan' = ChannelWrite(chan, ServicingProcess(chan, agreed))
            /\ Continue(AfterSpecialist("servicing"))
            /\ UNCHANGED effects
    /\ UNCHANGED <<turns, uwCalls, everSet, initial_state, lastPhase, lastTasks, seenPhases,
                   persisted_next_agent, turn_start, request, waiting, ready, inserted, agent,
                   extraction>>

CoachingNode ==
    /\ pc = "coaching"
    /\ pre' = chan
    /\ post' = chan
    /\ steps' = steps + 1
    /\ nodes' = Append(nodes, "coaching")
    /\ IF CoachingRaises(chan)
       THEN /\ pc' = "idle"
            /\ outcome' = "CoachingError"
            /\ UNCHANGED <<chan, result>>
       ELSE /\ result' = CoachingProcess(chan)
            /\ chan' = ChannelWrite(chan, CoachingProcess(chan))
            /\ Continue(AfterSpecialist("coaching"))
    /\ UNCHANGED <<turns, uwCalls, everSet, initial_state, lastPhase, lastTasks, seenPhases,
                   persisted_next_agent, turn_start, request, effects, waiting, ready, inserted, agent,
                   extraction>>

(***************************************************************************)
(* main.py chat, the body of its try block (lines 140-336), and personas   *)
(***************************************************************************)
AllTasks ==
    <<"confirm_eligibility", "capture_business_profile",
      "capture_business_financials", "capture_business_photos",
      "photo_analysis_complete">>

PersonaIds ==
    {"pre_loan_tienda", "active_loan_salon", "past_due_food_cart", "coaching_only_market"}

\* personas.py PERSONAS: a value the persona supplies is written "p"
Persona(id) ==
    IF id = "pre_loan_tienda" THEN
        [persona_id |-> id,
         phase |-> "onboarding",
         business_data |-> [k \in BusinessFields |-> "p"],
         loan_context |-> [loan_offer |-> NULL, loan_accepted |-> FALSE,
                           loan_offered |-> FALSE, days_past_due |-> NULL,
                           recovery_status |-> NULL],
         completed_tasks |-> <<>>]
    ELSE IF id = "active_loan_salon" THEN
        [persona_id |-> id,
         phase |-> "post_disbursement",
         business_data |-> [k \in BusinessFields |-> "p"],
         loan_context |-> [loan_offer |-> "offer", loan_accepted |-> TRUE,
                           loan_offered |-> TRUE, disbursement_status |-> "completed",
                           days_past_due |-> "0", recovery_status |-> NULL,
                           payment_schedule |-> "schedule"],
         completed_tasks |-> AllTasks]
    ELSE IF id = "past_due_food_cart" THEN
        [persona_id |-> id,
         phase |-> "delinquent",
         business_data |-> [k \in BusinessFields |-> "p"],
         loan_context |-> [loan_offer |-> "offer", loan_accepted |-> TRUE,
                           loan_offered |-> TRUE, disbursement_status |-> "completed",
                           days_past_due |-> "10", recovery_status |-> "in_conversation",
                           payment_schedule |-> "schedule"],
         completed_tasks |-> AllTasks]
    ELSE
        [persona_id |-> id,
         phase |-> "post_disbursement",
         business_data |-> [k \in BusinessFields |->
                              IF k = "loan_purpose" THEN NULL ELSE "p"],
         loan_context |-> [loan_offer |-> NULL, loan_accepted |-> FALSE,
                           loan_offered |-> FALSE, days_past_due |-> NULL,
                           recovery_status |-> NULL],
         completed_tasks |-> SubSeq(AllTasks, 1, 3)]

\* state.get(key) is None, for a key of any type
\* (keys that hold a boolean or a list are compared by their type)
TypedKeys ==
    {"loan_offered", "loan_accepted", "info_complete", "photos_received",
     "messages", "photos", "photo_insights", "required_tasks", "completed_tasks"}
GetIsNone(s, k) == ~Has(s, k) \/ (k \notin TypedKeys /\ s[k] = NULL)

\* every persona value is stored, whatever the key holds
FillAlways(s, d) == d @@ s

\* a persona value is stored only under a key whose value is None
FillNone(s, d) ==
    [k \in (DOMAIN s) \cup (DOMAIN d) |->
        IF k \in DOMAIN d /\ GetIsNone(s, k) THEN d[k] ELSE s[k]]

\* personas.py 238-245
DefaultRequiredTasks(s) ==
    IF GetL(s, "required_tasks") = <<>> THEN Set(s, "required_tasks", AllTasks) ELSE s

InitializeStateFromPersona(s, persona) ==
    Set(Set(DefaultRequiredTasks(
                Set(FillNone(FillNone(s, persona.business_data), persona.loan_context),
                    "phase", persona.phase)),
            "completed_tasks", persona.completed_tasks),
        "persona_id", persona.persona_id)

\* main.py 222-267: the state of a new session
MainFreshState(kind, system) ==
    [k \in BusinessFields |-> NULL] @@
    [messages |-> <<Msg("human", kind)>>,
     session_id |-> "s",
     user_id |-> "demo-user",
     conversation_id |-> "c",
     system_prompt |-> system,
     photos |-> <<>>,
     photo_insights |-> <<>>,
     risk_tier |-> NULL,
     loan_offer |-> NULL,
     phase |-> "onboarding",
     info_complete |-> FALSE,
     photos_received |-> FALSE,
     loan_offered |-> FALSE,
     loan_accepted |-> FALSE,
     required_tasks |-> RequiredTasks,
     completed_tasks |-> <<>>,
     next_agent |-> NULL,
     servicing_type |-> NULL,
     disbursement_status |-> NULL,
     repayment_status |-> NULL,
     payment_schedule |-> NULL,
     repayment_impact_explanation |-> NULL,
     recovery_status |-> NULL,
     persona_id |-> NULL,
     coaching_advice |-> NULL]

\* main.py 186-213: the state of a continued session
MainMerge(existing_state, kind, system) ==
    [k \in BusinessFields |-> Get(existing_state, k)] @@
    [messages |-> GetL(existing_state, "messages") \o <<Msg("human", kind)>>,
     conversation_id |-> "c",
     system_prompt |-> IF system # NULL THEN system ELSE Get(existing_state, "system_prompt"),
     photos |-> GetL(existing_state, "photos"),
     photo_insights |-> GetL(existing_state, "photo_insights"),
     phase |-> GetD(existing_state, "phase", "onboarding"),
     completed_tasks |-> GetL(existing_state, "completed_tasks")] @@
    existing_state

\* main.py 165-279: load the snapshot, build the initial state, invoke the graph
MainChatBody(kind, persona_id) ==
    /\ pc = "idle"
    /\ turns < MaxTurns
    /\ IF DOMAIN chan # {}
       THEN /\ persona_id = NULL
            /\ StartTurn(MainMerge(chan, kind, NULL), NoRequest)
       ELSE IF persona_id \in PersonaIds
            THEN StartTurn(InitializeStateFromPersona(MainFreshState(kind, NULL),
                                                      Persona(persona_id)),
                           NoRequest)
            ELSE StartTurn(MainFreshState(kind, NULL), NoRequest)
    /\ UNCHANGED waiting

Next ==
    \/ \E kind \in UserKinds : ApiChat(kind)
    \/ MainChat
    \/ \E X \in ExtractOutputs, seen \in ReplyKinds : BusinessPartnerNode(X, seen)
    \/ \E effect_fails \in BOOLEAN : UnderwritingNode(effect_fails)
    \/ \E agreed, effect_fails \in BOOLEAN : ServicingNode(agreed, effect_fails)
    \/ CoachingNode

Spec == Init /\ [][Next]_vars

\* the step of Next in which the scheduled node runs: every node action
\* counts its step
NodeRuns == pc # "idle" /\ steps' = steps + 1

\* the step of Next in which a further request of the session arrives
RequestArrives == pc = "idle" /\ turns < MaxTurns /\ turns' = turns + 1

\* graph.invoke runs every node it scheduled, and requests keep arriving
\* while the session lasts
SpecFair == Spec /\ WF_steps(NodeRuns) /\ WF_turns(RequestArrives)

\* the session driven through main.py's handler body
NextMain ==
    \/ \E kind \in UserKinds, persona_id \in PersonaIds \cup {NULL} :
            MainChatBody(kind, persona_id)
    \/ \E X \in ExtractOutputs, seen \in ReplyKinds : BusinessPartnerNode(X, seen)
    \/ \E effect_fails \in BOOLEAN : UnderwritingNode(effect_fails)
    \/ \E agreed, effect_fails \in BOOLEAN : ServicingNode(agreed, effect_fails)
    \/ CoachingNode

SpecMain == Init /\ [][NextMain]_vars

\* request.system: none, a text with the language requirement, another text
SystemOverrides == {NULL, "lang", "other"}

\* how graph.get_state and the store go for a request:
\*   ok     - the snapshot is read
\*   failed - get_state raises, the store works again when graph.invoke runs
\*   down   - get_state raises and so does graph.invoke
Loads == {"ok", "failed", "down"}

\* main.py 97-142: the handler runs up to `await get_or_create_conversation`
\* and is suspended there; other requests are served meanwhile
MainReceive ==
    /\ pc = "idle"
    /\ turns + waiting < MaxTurns
    /\ waiting' = waiting + 1
    /\ UNCHANGED <<chan, pc, steps, turns, outcome, nodes, pre, post, result,
                   initial_state, uwCalls, everSet, lastPhase, lastTasks, seenPhases,
                   persisted_next_agent, turn_start, request, effects,
                   ready, inserted, agent,
                   extraction>>

\* a snapshot read when the request was received, before the turn that ran
\* meanwhile wrote to the thread
LoadedStateAtReceive(c, load) == IF load = "ok" THEN turn_start ELSE EmptyDict

\* main.py 165-174: existing_state, None when get_state raised
LoadedState(c, load) == IF load = "ok" THEN c ELSE EmptyDict

\* main.py 186-267: the initial state built from existing_state
MainInitialState(existing_state, kind, system) ==
    IF DOMAIN existing_state # {}
    THEN MainMerge(existing_state, kind, system)
    ELSE MainFreshState(kind, system)

\* what is recorded of a resumed request: others is the number of requests
\* still suspended, overlapped tells that another request of the session was
\* in the handler at the same time
ResumedRequest(system, load) ==
    [system |-> system, load |-> load, others |-> waiting - 1,
     overlapped |-> (waiting > 1 \/ request.others > 0)]

\* main.py 145-279, from the resumption to graph.invoke: the code between
\* graph.get_state and graph.invoke has no await, and graph.invoke is a
\* synchronous call on the event loop of the single server process
\* (main.py 354-363), so no other request runs in between
MainResume(kind, system, load) ==
    /\ pc = "idle"
    /\ waiting > 0
    /\ load # "ok" => DOMAIN chan # {}
    /\ waiting' = waiting - 1
    /\ IF load = "down"
       THEN /\ turns' = turns + 1
            /\ outcome' = "StoreError"
            /\ nodes' = <<>>
            /\ turn_start' = chan
            /\ request' = ResumedRequest(system, load)
            /\ ready' = FALSE
            /\ UNCHANGED <<chan, pc, steps, pre, post, result, initial_state, uwCalls,
                           everSet, lastPhase, lastTasks, seenPhases,
                           persisted_next_agent, effects, inserted, agent,
                   extraction>>
       ELSE StartTurn(MainInitialState(LoadedState(chan, load), kind, system),
                      ResumedRequest(system, load))

\* the session driven by requests to main.py's handler that may overlap,
\* carry an instruction override and meet an unavailable store
NextRequests ==
    \/ MainReceive
    \/ \E kind \in UserKinds, system \in SystemOverrides, load \in Loads :
            MainResume(kind, system, load)
    \/ \E X \in ExtractOutputs, seen \in ReplyKinds : BusinessPartnerNode(X, seen)
    \/ \E effect_fails \in BOOLEAN : UnderwritingNode(effect_fails)
    \/ \E agreed, effect_fails \in BOOLEAN : ServicingNode(agreed, effect_fails)
    \/ CoachingNode

SpecRequests == Init /\ [][NextRequests]_vars

\* values of next_agent the routing function is applied to: None, the three
\* specialist names, and strings that name no specialist
RoutingSignals ==
    {NULL, "underwriting", "servicing", "coaching", "onboarding", "end", ""}

\* the thread after a first primary invocation that left signal a in
\* next_agent, with the business fields all null or all set
RoutingInput(kind, a, filled) ==
    Set(ChannelWrite(EmptyDict,
                     [k \in BusinessFields |-> IF filled THEN "u" ELSE NULL] @@
                     [messages |-> <<Msg("human", kind), Msg("ai", "text")>>] @@
                     ApiInitialState(kind)),
        "next_agent", a)

InitRouting ==
    /\ \E kind \in UserKinds, a \in RoutingSignals, filled \in BOOLEAN :
          chan = RoutingInput(kind, a, filled)
    /\ pc = "route"
    /\ steps = 1
    /\ turns = 1
    /\ outcome = "running"
    /\ nodes = <<"business_partner">>
    /\ pre = EmptyDict
    /\ post = EmptyDict
    /\ result = EmptyDict
    /\ initial_state = EmptyDict
    /\ uwCalls = 0
    /\ everSet = {}
    /\ lastPhase = NULL
    /\ lastTasks = {}
    /\ seenPhases = {}
    /\ persisted_next_agent = NULL
    /\ turn_start = EmptyDict
    /\ request = NoRequest
    /\ effects = <<>>
    /\ waiting = 0
    /\ ready = FALSE
    /\ inserted = <<>>
    /\ agent = NewAgent
    /\ extraction = NoExtraction

\* graph.py 185-194: the conditional edge out of the primary node applies
\* route_after_business_partner to the state and schedules the node it names
Route ==
    /\ pc = "route"
    /\ IF RouteAfterBusinessPartner(Get(chan, "next_agent")) = "end"
       THEN pc' = "idle" /\ outcome' = "ok"
       ELSE Continue(RouteAfterBusinessPartner(Get(chan, "next_agent")))
    /\ UNCHANGED <<chan, steps, turns, nodes, pre, post, result, initial_state,
                   uwCalls, everSet, lastPhase, lastTasks, seenPhases,
                   persisted_next_agent, turn_start, request, effects, waiting, ready, inserted, agent,
                   extraction>>

\* the routing function applied to every signal, and the turn that follows
NextRouting ==
    \/ Route
    \/ \E X \in ExtractOutputs, seen \in ReplyKinds : BusinessPartnerNode(X, seen)
    \/ \E effect_fails \in BOOLEAN : UnderwritingNode(effect_fails)
    \/ \E agreed, effect_fails \in BOOLEAN : ServicingNode(agreed, effect_fails)
    \/ CoachingNode

SpecRouting == InitRouting /\ [][NextRouting]_vars

(***************************************************************************)
(* get_system_prompt (onboarding_agent.py 43-77, underwriting_agent.py     *)
(* 48-86): the prompt cache of an agent object over time                   *)
(***************************************************************************)
\* seconds: prompt_ttl, the steps of the clock, and the end of the clock
PromptTtl == 60
ClockSteps == {30, 60}
MaxClock == 300

\* what langfuse.get_prompt does:
\*   text            - returns a prompt object with prompt text and version
\*   text_no_version - returns a prompt object with text but no version attribute
\*   no_prompt       - returns an object without a prompt attribute
\*   none            - returns None
\*   throws          - raises
FetchOutcomes == {"text", "text_no_version", "no_prompt", "none", "throws"}

\* lines 52-55: the cached prompt is returned
CacheValid(a) ==
    /\ a.system_prompt # NULL
    /\ a.prompt_cache_time # NoTime
    /\ a.now - a.prompt_cache_time < PromptTtl

\* the fetch without the try block around it
TryFetchUncaught(f) ==
    IF f = "text" THEN "return"
    ELSE IF f \in {"throws", "text_no_version"} THEN "raise"
    ELSE "fall"

\* lines 58-73: how the try block ends. The fetched text is returned; an
\* exception of get_prompt, or of the print that reads prompt_obj.version,
\* is caught and control falls to the fallback, as it does for an object
\* without prompt
TryFetch(f) == IF f = "text" THEN "return" ELSE "fall"

\* lines 65-66: the assignments made before the print
CacheAfterFetch(a, f) ==
    IF f \in {"text", "text_no_version"}
    THEN [a EXCEPT !.system_prompt = "fetched", !.prompt_cache_time = a.now]
    ELSE a

\* get_system_prompt: the agent afterwards, returned being what the call
\* returned ("fetched" text, the "fallback" text) or "raised"
GetSystemPrompt(a, f) ==
    IF CacheValid(a) THEN [a EXCEPT !.returned = a.system_prompt]
    ELSE IF TryFetch(f) = "return" THEN [CacheAfterFetch(a, f) EXCEPT !.returned = "fetched"]
    ELSE IF TryFetch(f) = "raise" THEN [a EXCEPT !.returned = "raised"]
    ELSE [CacheAfterFetch(a, f) EXCEPT !.returned = "fallback"]

\* a call of get_system_prompt while get_prompt behaves as f
GetSystemPromptCall(f) ==
    /\ agent.returned # "raised"
    /\ agent' = [GetSystemPrompt(agent, f) EXCEPT !.fetch = f, !.cached = CacheValid(agent)]
    /\ UNCHANGED <<chan, pc, steps, turns, outcome, nodes, pre, post, result,
                   initial_state, uwCalls, everSet, lastPhase, lastTasks, seenPhases,
                   persisted_next_agent, turn_start, request, effects, waiting,
                   ready, inserted, extraction>>

\* time passes between calls
Tick(dt) ==
    /\ agent.now + dt <= MaxClock
    /\ agent' = [agent EXCEPT !.now = agent.now + dt]
    /\ UNCHANGED <<chan, pc, steps, turns, outcome, nodes, pre, post, result,
                   initial_state, uwCalls, everSet, lastPhase, lastTasks, seenPhases,
                   persisted_next_agent, turn_start, request, effects, waiting,
                   ready, inserted, extraction>>

NextPrompt ==
    \/ \E f \in FetchOutcomes : GetSystemPromptCall(f)
    \/ \E dt \in ClockSteps : Tick(dt)

SpecPrompt == Init /\ [][NextPrompt]_vars

(***************************************************************************)
(* OnboardingAgent.process called on a state dict that holds a phase       *)
(* (onboarding_agent.py 784-931)                                           *)
(***************************************************************************)
Phases == {"onboarding", "offer", "post_disbursement", "delinquent"}

\* a state dict handed to process: one user message, the fields the
\* acceptance check and the phase update read, and the business fields, all
\* null or all holding an earlier value
ProcessInput(kind, phase, offered, accepted, disbursement, recovery, filled) ==
    [k \in BusinessFields |-> IF filled THEN "p" ELSE NULL] @@
    [messages |-> <<Msg("human", kind)>>,
     completed_tasks |-> <<>>,
     phase |-> phase,
     loan_offer |-> IF offered THEN "offer" ELSE NULL,
     loan_offered |-> offered,
     loan_accepted |-> accepted,
     disbursement_status |-> disbursement,
     recovery_status |-> recovery]

InitProcess ==
    /\ \E kind \in {"plain", "accept"}, phase \in Phases, offered, accepted \in BOOLEAN,
          disbursement \in {NULL, "completed"},
          recovery \in {NULL, "in_conversation", "resolved"}, filled \in BOOLEAN :
          pre = ProcessInput(kind, phase, offered, accepted, disbursement, recovery, filled)
    /\ chan = EmptyDict
    /\ pc = "call"
    /\ steps = 0
    /\ turns = 0
    /\ outcome = "none"
    /\ nodes = <<>>
    /\ post = EmptyDict
    /\ result = EmptyDict
    /\ initial_state = EmptyDict
    /\ uwCalls = 0
    /\ everSet = {}
    /\ lastPhase = NULL
    /\ lastTasks = {}
    /\ seenPhases = {}
    /\ persisted_next_agent = NULL
    /\ turn_start = EmptyDict
    /\ request = NoRequest
    /\ effects = <<>>
    /\ waiting = 0
    /\ ready = FALSE
    /\ inserted = <<>>
    /\ agent = NewAgent
    /\ extraction = NoExtraction

\* process(state): post is the dict after the call, result what it returned
ProcessCall(call) ==
    /\ pc = "call"
    /\ post' = OnboardingProcess(pre, ExtractUpdates(call)).post
    /\ result' = OnboardingProcess(pre, ExtractUpdates(call)).result
    /\ extraction' = call
    /\ nodes' = <<"business_partner">>
    /\ pc' = "done"
    /\ outcome' = "ok"
    /\ UNCHANGED <<chan, steps, turns, pre, initial_state, uwCalls, everSet,
                   lastPhase, lastTasks, seenPhases, persisted_next_agent, turn_start,
                   request, effects, waiting, ready, inserted, agent>>

NextProcess == \E call \in ExtractionCalls : ProcessCall(call)

SpecProcess == InitProcess /\ [][NextProcess]_vars

(***************************************************************************)
(* Properties                                                              *)
(***************************************************************************)
TurnEndedOk == pc = "idle" /\ outcome = "ok"

SpecialistsIn(ns) == {i \in 1..Len(ns) : ns[i] # "business_partner"}

\* the last node invocation was a primary invocation
AfterPrimary == Len(nodes) > 0 /\ nodes[Len(nodes)] = "business_partner"

\* C1: a business field that was non-null in the state persisted after some
\* finished turn is non-null in the state persisted after every later turn
C1_FieldRetention ==
    TurnEndedOk => everSet \subseteq NonNullFields(chan)

\* C2: underwriting is invoked only if, at the primary invocation that routed
\* to it, all five required tasks were in completed_tasks, photo_insights was
\* non-empty and no offer had been generated in the session
C2_UnderwritingPrecondition ==
    pc = "underwriting" =>
        /\ Range(RequiredTasks) \subseteq Range(GetL(post, "completed_tasks"))
        /\ Len(GetL(post, "photo_insights")) > 0
        /\ uwCalls = 0

\* C3: a turn ends at the end node, after a primary invocation that emitted
\* an empty routing signal; the executor loop is never cut off
C3_TurnReachesEnd ==
    outcome # "GraphRecursionError"

\* C4: once loan_offer is non-null no later invocation or turn replaces it,
\* and underwriting is invoked at most once in the session
C4_OfferOnce ==
    [][/\ Get(chan, "loan_offer") # NULL => Get(chan', "loan_offer") = Get(chan, "loan_offer")
       /\ uwCalls' <= 1]_vars

\* C5: phase is delinquent only in a session whose phase was
\* post_disbursement before, sessions initialised from a persona included
C5_DelinquentAfterPostDisbursement ==
    lastPhase = "delinquent" => "post_disbursement" \in seenPhases

PhaseRank(p) ==
    IF p = "onboarding" THEN 1
    ELSE IF p = "offer" THEN 2
    ELSE IF p = "post_disbursement" THEN 3
    ELSE 4

\* C6: the phase produced by a primary invocation or a turn merge is never
\* earlier in the order onboarding < offer < post_disbursement < delinquent
\* than the phase before it
C6_PhaseNeverRegresses ==
    [][(lastPhase # NULL /\ lastPhase' # NULL)
          => PhaseRank(lastPhase) <= PhaseRank(lastPhase')]_vars

\* C7: the completed_tasks a primary invocation produces contain every task
\* an earlier primary invocation of the session produced
C7_ChecklistMonotone ==
    [][lastTasks \subseteq lastTasks']_vars

\* C8: at most one non-primary specialist is invoked in a turn
C8_OneSpecialistPerTurn ==
    Cardinality(SpecialistsIn(nodes)) <= 1

\* C9: in a turn the primary specialist runs first, whatever next_agent the
\* session held when the turn began, and the node after a non-primary
\* specialist is the primary specialist
C9_InvocationOrder ==
    /\ nodes # <<>> => nodes[1] = "business_partner"
    /\ (nodes = <<>> /\ pc # "idle") => pc = "business_partner"
    /\ \A i \in SpecialistsIn(nodes) :
          IF i < Len(nodes) THEN nodes[i + 1] = "business_partner"
          ELSE pc \in {"business_partner", "idle"}

\* a turn that began with a routing signal persisted by the turn before it
\* ran primary, specialist, primary
C9_Witness ==
    /\ persisted_next_agent # NULL
    /\ Len(nodes) = 3
    /\ nodes[2] # "business_partner"
    /\ nodes[3] = "business_partner"

\* the routing reference: the candidates in priority order, the first whose
\* condition holds, the empty signal when none does
RoutingCandidates(s) ==
    <<[agent |-> "underwriting",
       when |-> /\ \A t \in Range(GetL(s, "required_tasks")) :
                        t \in Range(GetL(s, "completed_tasks"))
                /\ GetL(s, "photo_insights") # <<>>
                /\ ~GetB(s, "loan_offered")],
      [agent |-> "coaching",
       when |-> GetB(s, "loan_accepted") /\ ~Has(s, "coaching_provided")],
      [agent |-> "servicing",
       when |-> \/ GetB(s, "loan_accepted") /\ Get(s, "disbursement_status") = NULL
                \/ /\ GetL(s, "messages") # <<>>
                   /\ LastMessage(s).kind \in {"payment", "trouble"}
                \/ /\ Get(s, "recovery_status") # NULL
                   /\ Get(s, "recovery_status") \notin {"resolved", "escalated"}]>>

RoutingReference(s) ==
    LET c == RoutingCandidates(s)
        hits == {i \in 1..Len(c) : c[i].when}
    IN  IF hits = {} THEN NULL
        ELSE c[CHOOSE i \in hits : \A j \in hits : i <= j].agent

TurnFailed ==
    /\ pc = "idle"
    /\ outcome \in {"UnderwritingError", "ServicingError", "CoachingError",
                    "GraphRecursionError", "StoreError"}

\* C11: after a turn that failed during graph execution, the state held by
\* the checkpoint store equals the state it held before the turn began
C11_AllOrNothing ==
    TurnFailed => chan = turn_start

\* data captured in state c: the non-null business fields and the loan offer
Captured(c) == {k \in BusinessFields \cup {"loan_offer"} : Get(c, k) # NULL}

\* C12: when the load of an existing session's state failed, the turn fails
\* explicitly or the data captured before the turn is still in the store
C12_LoadFailureKeepsData ==
    request.load # "ok" =>
        \/ outcome = "StoreError"
        \/ Captured(turn_start) \subseteq Captured(chan)

IsPrefix(s, u) == Len(s) <= Len(u) /\ SubSeq(u, 1, Len(s)) = s

\* the step is the handler's graph.invoke with the state it built
TurnStarts == turns' = turns + 1 /\ outcome' = "running"

\* C13: in every step (the turn merge, every node invocation) the stored
\* message history before the step is a prefix of the history after it, and
\* the turn merge adds exactly the request's latest user message at the end
C13_HistoryAppendOnly ==
    [][/\ IsPrefix(GetL(chan, "messages"), GetL(chan', "messages"))
       /\ TurnStarts =>
             /\ Len(GetL(chan', "messages")) = Len(GetL(chan, "messages")) + 1
             /\ LastMessage(chan').role = "human"
             /\ LastMessage(chan').kind = LastMessage(initial_state').kind]_vars

\* a second turn merged its user message into a stored history and a
\* specialist was invoked in it
C13_Witness ==
    /\ turns = 2
    /\ request.load = "ok"
    /\ Len(GetL(turn_start, "messages")) >= 2
    /\ IsPrefix(GetL(turn_start, "messages"), GetL(chan, "messages"))
    /\ Len(GetL(chan, "messages")) >= Len(GetL(turn_start, "messages")) + 2
    /\ SpecialistsIn(nodes) # {}

\* C14: in a turn whose request carries no instruction override, the primary
\* invocation uses the instructions it would use had no override ever been
\* sent in the session: the base prompt
C14_OverrideOneTurnOnly ==
    (AfterPrimary /\ request.system = NULL) => Get(result, "system_prompt") = "base"

\* the current turn's initial state came out of initialize_state_from_persona
PersonaApplied == Get(initial_state, "persona_id") \in PersonaIds

\* the state initialize_state_from_persona received in that turn
PersonaInput == MainFreshState(LastMessage(initial_state).kind, NULL)

SpecialistNames == {"underwriting", "servicing", "coaching"}

\* C16: once the conditional edge has been taken after a primary invocation
\* that left in next_agent anything but a specialist's name (null or an
\* unknown name), the turn has ended normally: no specialist was invoked
\* after that invocation and nothing was raised
C16_UnknownSignalEndsTurn ==
    (AfterPrimary /\ pc # "route" /\ Get(chan, "next_agent") \notin SpecialistNames)
        => TurnEndedOk

\* the edge was taken with a next_agent that names no specialist and is not
\* null, and the turn ended after the primary invocation alone
C16_Witness ==
    /\ TurnEndedOk
    /\ nodes = <<"business_partner">>
    /\ Get(chan, "next_agent") \notin SpecialistNames \cup {NULL}

\* the last node invocation was of specialist n
LastNodeIs(n) == Len(nodes) > 0 /\ nodes[Len(nodes)] = n

\* the background effect started most recently failed
LastEffectFailed == effects # <<>> /\ effects[Len(effects)].failed

\* C17: when a specialist invocation started a background persistence effect
\* and the effect failed, the invocation returned the partial update it
\* returns otherwise and the turn did not fail in that invocation
C17_EffectFailureContained ==
    /\ (LastNodeIs("underwriting") /\ ~UnderwritingRaises(pre) /\ SaveLoanStarted(pre)
            /\ LastEffectFailed)
          => (result = UnderwritingProcess(pre) /\ outcome # "UnderwritingError")
    /\ (LastNodeIs("servicing") /\ ~ServicingRaises(pre) /\ UpdateLoanStarted(pre, TRUE)
            /\ LastEffectFailed)
          => ((\E agreed \in BOOLEAN : result = ServicingProcess(pre, agreed))
                /\ outcome # "ServicingError")

\* an underwriting invocation started the loan-application save, the save
\* failed, and the turn went on to its normal end with the offer stored
C17_Witness ==
    /\ TurnEndedOk
    /\ "underwriting" \in Range(nodes)
    /\ LastEffectFailed
    /\ effects[Len(effects)].name = "save_loan_application"
    /\ Get(chan, "loan_offer") = "offer"

\* the loan-application saves started in the session so far
SavesStarted == {i \in 1..Len(effects) : effects[i].name = "save_loan_application"}

\* C18: in one session the loan-application save is started at most once
C18_SaveAtMostOnce == Cardinality(SavesStarted) <= 1

\* keys the turn merge sets from the request
RequestKeys == {"messages", "conversation_id", "system_prompt"}

NodeInvoked == Len(nodes') = Len(nodes) + 1

\* C20: for every node invocation, each key of the session state whose
\* value after the invocation differs from its value before is a key of the
\* partial update the invocation returned
C20_ChangesOnlyThroughUpdate ==
    [][NodeInvoked =>
         \A k \in DOMAIN chan' :
             (k \notin DOMAIN chan \/ chan'[k] # chan[k]) => k \in DOMAIN result']_vars

\* every field of fs is non-null in state s
AllSet(s, fs) == \A f \in fs : Get(s, f) # NULL

\* task_id is in the completed_tasks of state s
TaskDone(s, task_id) == task_id \in Range(GetL(s, "completed_tasks"))

\* C21: after a primary invocation, a data-capture task is in
\* completed_tasks whenever all its defining fields are non-null in the state
\* the invocation processed
C21_CaptureTasksFollowFields ==
    AfterPrimary =>
        /\ AllSet(post, ProfileFields) => TaskDone(post, "capture_business_profile")
        /\ AllSet(post, FinancialFields) => TaskDone(post, "capture_business_financials")

\* C22: after a primary invocation on a state in which business_type and
\* location are both set, confirm_eligibility is in completed_tasks, in the
\* processed state and in the update the invocation returns
C22_EligibilityConfirmed ==
    (AfterPrimary /\ AllSet(post, {"business_type", "location"})) =>
        /\ TaskDone(post, "confirm_eligibility")
        /\ TaskDone(result, "confirm_eligibility")

\* a primary invocation received a state that already held business_type
\* and location but not all fields, and returned the task
C22_Witness ==
    /\ AfterPrimary
    /\ AllSet(pre, {"business_type", "location"})
    /\ ~AllSet(post, BusinessFields)
    /\ TaskDone(result, "confirm_eligibility")

\* the node sequence business_partner, underwriting, business_partner
OfferTurnNodes == <<"business_partner", "underwriting", "business_partner">>

\* C23: in a turn whose first primary invocation has all required tasks
\* complete, an analysed photo and no offer, the nodes invoked are
\* business_partner, underwriting, business_partner and then the turn ends
\* normally, with loan_offer non-null and loan_offered true
C23_OfferTurnSequence ==
    ready =>
        /\ IsPrefix(nodes, OfferTurnNodes)
        /\ pc = "idle" =>
              /\ TurnEndedOk
              /\ nodes = OfferTurnNodes
              /\ Get(chan, "loan_offer") # NULL
              /\ GetB(chan, "loan_offered")

\* in state s there are no more insights than photos, and the insight at
\* each position carries the (zero-based) index of the photo at that position
PhotosConsistent(s) ==
    /\ Len(GetL(s, "photo_insights")) <= Len(GetL(s, "photos"))
    /\ \A i \in 1..Len(GetL(s, "photo_insights")) : GetL(s, "photo_insights")[i] = i - 1

\* C24: in every state, stored or processed by the primary specialist,
\* len(photo_insights) <= len(photos) and every insight's photo_index is
\* the position in photos of the photo it was derived from
C24_InsightsMatchPhotos ==
    PhotosConsistent(chan) /\ PhotosConsistent(post)

\* a photo sent in a later turn was analysed after one stored earlier
C24_Witness ==
    /\ Len(GetL(chan, "photos")) = 2
    /\ GetL(chan, "photo_insights") = <<0, 1>>
    /\ Len(GetL(turn_start, "photos")) = 1

\* sequence q has no entry twice
NoDuplicates(q) == \A i, j \in 1..Len(q) : q[i] = q[j] => i = j

\* in state s completed_tasks is duplicate-free and within required_tasks
TasksWellFormed(s) ==
    /\ NoDuplicates(GetL(s, "completed_tasks"))
    /\ Range(GetL(s, "completed_tasks")) \subseteq Range(GetL(s, "required_tasks"))

\* C25: in every state (the one a handler builds, the one the primary
\* specialist processed) completed_tasks has no duplicate entry and every
\* entry of completed_tasks is a member of required_tasks
C25_CompletedWithinRequired ==
    TasksWellFormed(initial_state) /\ TasksWellFormed(post)

\* the fields of the servicing and recovery sub-state that the model holds
ServicingFields ==
    {"disbursement_status", "repayment_status", "payment_schedule", "recovery_status"}

\* C26: every step other than an invocation of the servicing specialist
\* (the handler's turn start with its merge and persona initialisation, the
\* primary, underwriting and coaching invocations) leaves each field of the
\* servicing sub-state of the session as it was
C26_ServicingFieldsOwned ==
    [][pc # "servicing" =>
         \A k \in ServicingFields : Get(chan', k) = Get(chan, k)]_vars

PhaseEdges ==
    {<<"onboarding", "offer">>, <<"onboarding", "post_disbursement">>,
     <<"offer", "post_disbursement">>, <<"post_disbursement", "delinquent">>}

PrimaryReadAssistantMessage ==
    /\ AfterPrimary
    /\ Len(GetL(pre, "messages")) > 0
    /\ LastMessage(pre).role = "ai"

\* C29: a primary invocation whose latest message is an assistant message
\* does not turn loan_accepted true, and signals servicing only for a state
\* reason (accepted loan awaiting disbursement, active recovery status),
\* never for keywords of that message
C29_OnlyUserMessagesDetected ==
    PrimaryReadAssistantMessage
       => /\ GetB(post, "loan_accepted") => GetB(pre, "loan_accepted")
          /\ Get(result, "next_agent") = "servicing"
                => \/ GetB(post, "loan_accepted") /\ Get(post, "disbursement_status") = NULL
                   \/ Get(post, "recovery_status") \notin {NULL, "resolved", "escalated"}

\* C30: over the turns of a conversation every message of the history is
\* inserted into the messages table once: no message id occurs twice among
\* the inserted rows
C30_EachMessageInsertedOnce == NoDuplicates(inserted)

\* C31: after a new session was initialised from a persona, every non-null
\* entry of the persona's loan context has the same value in the state
C31_PersonaLoanContextHeld ==
    PersonaApplied =>
        \A k \in DOMAIN Persona(initial_state["persona_id"]).loan_context :
            ~GetIsNone(Persona(initial_state["persona_id"]).loan_context, k)
               => Get(initial_state, k) = Persona(initial_state["persona_id"]).loan_context[k]

\* process was called directly and its extraction call raised or returned
\* text that is not JSON
ExtractionFailed == pc = "done" /\ extraction.how \in {"raises", "unparseable"}

CaptureTasks == {"capture_business_profile", "capture_business_financials"}

\* C32: when the extraction call fails, the primary invocation completes
\* with a reply, every business field keeps its value and none is returned,
\* no capture task is added, and the phase is the one the invocation
\* derives without any extraction
C32_FailedExtractionChangesNothing ==
    ExtractionFailed
       => /\ outcome = "ok"
          /\ Has(result, "messages")
          /\ \A k \in BusinessFields : Get(post, k) = Get(pre, k) /\ ~Has(result, k)
          /\ (CaptureTasks \cap Range(GetL(post, "completed_tasks")))
                \subseteq Range(GetL(pre, "completed_tasks"))
          /\ post["phase"] = OnboardingState(pre, {})["phase"]
          /\ result["phase"] = post["phase"]

\* the extraction call raised in an invocation on a state whose business
\* fields were set; the invocation completed and the fields kept their values
C32_Witness ==
    /\ ExtractionFailed
    /\ extraction.how = "raises"
    /\ outcome = "ok"
    /\ Get(pre, "business_type") = "p"
    /\ Get(post, "business_type") = "p"

\* C33: in main.py's chat handler no step reads the previous state before
\* the snapshot load has assigned it: no request ends with the error Python
\* raises for a local read before its assignment
C33_SnapshotLoadedBeforeRead == outcome # "UnboundLocalError"

\* a primary invocation has just found the loan accepted with no
\* disbursement yet
AcceptedUndisbursed ==
    /\ AfterPrimary
    /\ GetB(post, "loan_accepted")
    /\ Get(post, "disbursement_status") = NULL

\* the session state holds a disbursement status
Disbursed == Get(chan, "disbursement_status") # NULL

C35_UnderwritingFieldsPresent ==
    /\ pc = "underwriting"
          => \A k \in {"years_operating", "monthly_revenue", "loan_purpose"} :
                Get(chan, k) # NULL
    /\ outcome # "UnderwritingError"

\* every task in the completed_tasks of state s has its defining condition
\* true in s
ChecklistSound(s) ==
    /\ TaskDone(s, "capture_business_profile") => AllSet(s, ProfileFields)
    /\ TaskDone(s, "capture_business_financials") => AllSet(s, FinancialFields)
    /\ TaskDone(s, "capture_business_photos") => Len(GetL(s, "photos")) > 0
    /\ TaskDone(s, "photo_analysis_complete") => Len(GetL(s, "photo_insights")) > 0

\* C36: the checklist is sound in the state the turn merge or the persona
\* initialisation produced and in the state every primary invocation leaves
C36_ChecklistSound ==
    /\ ChecklistSound(initial_state)
    /\ AfterPrimary => ChecklistSound(post)

\* dicts a and b agree on key k: both lack it or both hold the same value
SameAt(a, b, k) == (Has(a, k) <=> Has(b, k)) /\ (Has(a, k) /\ Has(b, k) => a[k] = b[k])

\* the fields the extraction has no business changing
ProtectedKeys ==
    {"next_agent", "phase", "completed_tasks", "messages", "loan_offered", "loan_accepted"}

\* C37: whatever keys the extraction output contains, the protected fields
\* of the state and of the returned update are what they are when the same
\* invocation extracts only the output's business fields
C37_ExtractionTouchesBusinessFieldsOnly ==
    (pc = "done" /\ extraction.how = "json")
       => \A k \in ProtectedKeys :
             /\ SameAt(post, OnboardingProcess(pre, extraction.keys \cap BusinessFields).post, k)
             /\ SameAt(result, OnboardingProcess(pre, extraction.keys \cap BusinessFields).result, k)

\* loan_offered is true in state s exactly when s holds a loan offer
OfferFlagMatches(s) == GetB(s, "loan_offered") <=> Get(s, "loan_offer") # NULL

\* C38: in the session state, and in the state the turn merge or the persona
\* initialisation produced, loan_offered is true if and only if loan_offer is
\* non-null
C38_OfferedIffOffer == OfferFlagMatches(chan) /\ OfferFlagMatches(initial_state)

\* C39: every loan-application save that was started read a state that
\* holds the offer, so the application is persisted rather than skipped
C39_SaveSeesOffer ==
    \A i \in 1..Len(effects) :
        effects[i].name = "save_loan_application" => effects[i].loan_offer # NULL

\* the session's disbursement is completed and its phase is post_disbursement
PostDisbursement ==
    /\ Get(chan, "disbursement_status") = "completed"
    /\ lastPhase = "post_disbursement"

\* no reachable state of a session without persona holds a completed
\* disbursement or the phase post_disbursement (an invariant of Spec)
NeverPostDisbursement ==
    /\ Get(chan, "disbursement_status") # "completed"
    /\ lastPhase # "post_disbursement"

====
